---- MODULE Spec2Model ----
(***************************************************************************)
(* A model of the replicated file store: three FileServer replicas (each a *)
(* RaftNode) sharing one NetworkManager, the harness of main.py that       *)
(* designates the initial leader and later stops it, and clients that      *)
(* enqueue file requests.                                                  *)
(*                                                                         *)
(* Threads are modelled by their position: the election timer and the      *)
(* message processor of every replica, the heartbeat loop of a leader and  *)
(* the main thread of the harness.  A `with self.lock:` block whose body   *)
(* runs to its end is one step (no other lock holder can observe its       *)
(* middle); the reads the code makes without the lock (the loop            *)
(* conditions, the heartbeat loop, handle_write_file's role checks) are    *)
(* steps of their own.  Wall-clock time is abstracted: an election timeout *)
(* may have elapsed at any iteration of the timer loop.                    *)
(***************************************************************************)
EXTENDS Integers, Sequences, FiniteSets, TLC

\* ---------------------------------------------------------------- bounds
MaxHeartbeats == 2
MaxRequests == 1
MaxTerm == 2
MaxTime == 2

\* ------------------------------------------------------ program constants
commit_index == 0

ServerIds == <<"server1", "server2", "server3">>
Servers == {ServerIds[i] : i \in 1..Len(ServerIds)}
Clients == {"client1", "client2"}
ConnectedServer == [c \in Clients |-> IF c = "client1" THEN "server2" ELSE "server3"]
Filenames == {"test.txt"}
Contents == {"Hello"}
Durations == {1}
None == "none"

RaftTypes == {"request_vote", "vote_response", "append_entries", "append_entries_response"}
FileTypes == {"create_file", "read_file", "write_file", "delete_file"}
LeaseTypes == {"request_lease", "release_lease"}

VARIABLES
    state, current_term, voted_for, leader_id, votes_received, log,
    files, storage, lock,
    message_queues,
    timer_pc, mp_pc, mp_msg, hb_pc, hb_peer, hb_sent,
    main_pc, initial_leader, requests_left,
    votes, now,
    message_queue, client_pc, client_call

raftVars == <<state, current_term, voted_for, leader_id, votes_received>>
fileVars == <<files, storage, log>>
hbVars == <<hb_pc, hb_peer, hb_sent>>
mpVars == <<mp_pc, mp_msg>>
mainVars == <<main_pc, initial_leader>>
clientVars == <<message_queue, client_pc, client_call>>
vars == <<state, current_term, voted_for, leader_id, votes_received, log,
          files, storage, lock, message_queues,
          timer_pc, mp_pc, mp_msg, hb_pc, hb_peer, hb_sent,
          main_pc, initial_leader, requests_left, votes, now,
          message_queue, client_pc, client_call>>

\* ---------------------------------------------------------------- helpers
Peers(r) == SelectSeq(ServerIds, LAMBDA s : s # r)

Message(type, data) == [type |-> type, data |-> data]
NoMessage == Message(None, [none |-> None])

Thread(kind, r) == <<kind, r>>
NoThread == Thread(None, None)
MainThread == Thread("main", "main")

\* threading.Lock(): acquire succeeds only when nobody holds the lock, the
\* acquiring thread included.
Acquirable(holder, t) == holder = NoThread

\* NetworkManager.register_handler: one registry for the whole transport,
\* keyed by message type only.
register_handler(handlers, msg_type, owner) ==
    [handlers EXCEPT ![msg_type] = owner]

RECURSIVE RegisterAll(_, _, _)
RegisterAll(handlers, types, owner) ==
    IF types = {} THEN handlers
    ELSE LET t == CHOOSE x \in types : TRUE
         IN RegisterAll(register_handler(handlers, t, owner), types \ {t}, owner)

\* The registry after main.py has constructed the replicas in order: each
\* constructor registers its own bound methods for every type.
RECURSIVE Construct(_, _)
Construct(handlers, i) ==
    IF i > Len(ServerIds) THEN handlers
    ELSE Construct(RegisterAll(handlers, RaftTypes \cup FileTypes \cup LeaseTypes,
                               ServerIds[i]), i + 1)

handlers == Construct([t \in RaftTypes \cup FileTypes \cup LeaseTypes |-> None], 1)

\* Variant of send_message that puts the message at the front of the mailbox
send_message_at_front(mq, message, recipient_id) ==
    IF recipient_id \in DOMAIN mq
    THEN [mq EXCEPT ![recipient_id] = <<message>> \o @]
    ELSE mq @@ (recipient_id :> <<message>>)

send_message(mq, message, recipient_id) ==
    IF recipient_id \in DOMAIN mq
    THEN [mq EXCEPT ![recipient_id] = Append(@, message)]
    ELSE mq @@ (recipient_id :> <<message>>)

\* out is a sequence of [message, to] in send order
RECURSIVE SendAll(_, _)
SendAll(mq, out) ==
    IF out = <<>> THEN mq
    ELSE SendAll(send_message(mq, Head(out).message, Head(out).to), Tail(out))

HasMessage(mq, id) == id \in DOMAIN mq /\ mq[id] # <<>>

LastLogTerm(r) == IF log[r] # <<>> THEN log[r][Len(log[r])].term ELSE 0

RecordVote(vs, r, term, vf) ==
    IF vf # None THEN [vs EXCEPT ![r] = @ \cup {<<term, vf>>}] ELSE vs

\* ------------------------------------------------------------------- Init
Init ==
    /\ state = [r \in Servers |-> "follower"]
    /\ current_term = [r \in Servers |-> 0]
    /\ voted_for = [r \in Servers |-> None]
    /\ leader_id = [r \in Servers |-> None]
    /\ votes_received = [r \in Servers |-> 0]
    /\ log = [r \in Servers |-> <<>>]
    /\ files = [r \in Servers |-> [f \in {} |-> None]]
    /\ storage = [k \in {} |-> None]
    /\ lock = [r \in Servers |-> NoThread]
    /\ message_queues = [x \in {} |-> <<>>]
    /\ timer_pc = [r \in Servers |-> "run"]
    /\ mp_pc = [r \in Servers |-> "receive"]
    /\ mp_msg = [r \in Servers |-> NoMessage]
    /\ hb_pc = [r \in Servers |-> None]
    /\ hb_peer = [r \in Servers |-> 0]
    /\ hb_sent = [r \in Servers |-> 0]
    /\ main_pc = "start"
    /\ initial_leader = None
    /\ requests_left = MaxRequests
    /\ votes = [r \in Servers |-> {}]
    /\ now = 0
    /\ message_queue = [c \in Clients |-> <<>>]
    /\ client_pc = [c \in Clients |-> "idle"]
    /\ client_call = [c \in Clients |-> None]

\* ---------------------------------------------------------------- harness
\* RaftNode.become_leader, and the same assignments in handle_vote_response
\* when the votes reach a majority.  One heartbeat thread is tracked per
\* replica.
StartHeartbeats(pcs, r) == IF pcs[r] = "run" THEN pcs ELSE [pcs EXCEPT ![r] = "run"]

\* main.py: leader_id = random.choice(server_ids)
ChooseLeader ==
    /\ main_pc = "start"
    /\ \E l \in Servers : initial_leader' = l
    /\ main_pc' = "become_leader"
    /\ UNCHANGED <<clientVars, now, raftVars, fileVars, lock, message_queues, timer_pc, mpVars,
                   hbVars, requests_left, votes>>

\* main.py: leader_server.become_leader()
BecomeLeader ==
    /\ main_pc = "become_leader"
    /\ Acquirable(lock[initial_leader], MainThread)
    /\ state' = [state EXCEPT ![initial_leader] = "leader"]
    /\ leader_id' = [leader_id EXCEPT ![initial_leader] = initial_leader]
    /\ hb_pc' = StartHeartbeats(hb_pc, initial_leader)
    /\ main_pc' = "running"
    /\ UNCHANGED <<clientVars, now, current_term, voted_for, votes_received, fileVars, lock,
                   message_queues, timer_pc, mpVars, hb_peer, hb_sent,
                   initial_leader, requests_left, votes>>

\* main.py: leader_server.state = 'stopped' (written without the lock)
StopLeader ==
    /\ main_pc = "running"
    /\ state' = [state EXCEPT ![initial_leader] = "stopped"]
    /\ main_pc' = "done"
    /\ UNCHANGED <<clientVars, now, current_term, voted_for, leader_id, votes_received, fileVars,
                   lock, message_queues, timer_pc, mpVars, hbVars,
                   initial_leader, requests_left, votes>>

\* ---------------------------------------------------------- election timer
\* RaftNode.start_election as called from the timer: the effect on the
\* replica's fields and the request_vote broadcast.
start_election(r) ==
    LET term == current_term[r] + 1
        request == Message("request_vote",
                           [term |-> term, candidate_id |-> r,
                            last_log_index |-> Len(log[r]),
                            last_log_term |-> LastLogTerm(r),
                            source_id |-> r])
    IN [state |-> "candidate", current_term |-> term, voted_for |-> r,
        votes_received |-> 1,
        out |-> [i \in 1..Len(Peers(r)) |-> [message |-> request, to |-> Peers(r)[i]]]]

\* run_election_timer: the loop ends once the replica is stopped
ElectionTimerExit(r) ==
    /\ timer_pc[r] = "run"
    /\ state[r] = "stopped"
    /\ timer_pc' = [timer_pc EXCEPT ![r] = "exited"]
    /\ UNCHANGED <<clientVars, now, raftVars, fileVars, lock, message_queues, mpVars, hbVars,
                   mainVars, requests_left, votes>>

\* run_election_timer: one iteration in which the timeout has elapsed.  The
\* timer holds the replica lock when it calls start_election, which asks for
\* the same lock.
ElectionTimeout(r) ==
    LET t == Thread("timer", r)
        e == start_election(r)
    IN /\ timer_pc[r] = "run"
       /\ state[r] # "stopped"
       /\ Acquirable(lock[r], t)
       /\ state[r] # "leader"
       /\ current_term[r] < MaxTerm
       /\ IF Acquirable(t, t)
          THEN /\ state' = [state EXCEPT ![r] = e.state]
               /\ current_term' = [current_term EXCEPT ![r] = e.current_term]
               /\ voted_for' = [voted_for EXCEPT ![r] = e.voted_for]
               /\ votes_received' = [votes_received EXCEPT ![r] = e.votes_received]
               /\ message_queues' = SendAll(message_queues, e.out)
               /\ votes' = RecordVote(votes, r, e.current_term, e.voted_for)
               /\ UNCHANGED <<lock, timer_pc>>
          ELSE /\ lock' = [lock EXCEPT ![r] = t]
               /\ timer_pc' = [timer_pc EXCEPT ![r] = "start_election"]
               /\ UNCHANGED <<state, current_term, voted_for, votes_received,
                              message_queues, votes>>
       /\ UNCHANGED <<clientVars, now, leader_id, fileVars, mpVars, hbVars, mainVars, requests_left>>

\* ---------------------------------------------------------- heartbeat loop
\* send_heartbeats: `while self.state == 'leader'`, read without the lock
HeartbeatCheck(r) ==
    /\ hb_pc[r] = "run"
    /\ hb_peer[r] = 0
    /\ IF state[r] = "leader"
       THEN /\ hb_peer' = [hb_peer EXCEPT ![r] = 1]
            /\ UNCHANGED hb_pc
       ELSE /\ hb_pc' = [hb_pc EXCEPT ![r] = "exited"]
            /\ UNCHANGED hb_peer
    /\ UNCHANGED hb_sent
    /\ UNCHANGED <<clientVars, now, raftVars, fileVars, lock, message_queues, timer_pc, mpVars,
                   mainVars, requests_left, votes>>

\* send_heartbeats: one append_entries, built from the fields as they are
\* when the message is sent
HeartbeatSend(r) ==
    /\ hb_pc[r] = "run"
    /\ hb_peer[r] \in 1..Len(Peers(r))
    /\ hb_sent[r] < MaxHeartbeats
    /\ message_queues' =
         send_message(message_queues,
                      Message("append_entries",
                              [term |-> current_term[r], leader_id |-> r,
                               prev_log_index |-> Len(log[r]) - 1,
                               prev_log_term |-> LastLogTerm(r),
                               entries |-> <<>>,
                               leader_commit |-> commit_index]),
                      Peers(r)[hb_peer[r]])
    /\ hb_peer' = [hb_peer EXCEPT ![r] = IF @ = Len(Peers(r)) THEN 0 ELSE @ + 1]
    /\ hb_sent' = [hb_sent EXCEPT ![r] = @ + 1]
    /\ UNCHANGED <<clientVars, now, raftVars, fileVars, lock, timer_pc, mpVars, hb_pc,
                   mainVars, requests_left, votes>>

\* ------------------------------------------------------- message processor
\* process_messages: the loop ends once the replica is stopped
ProcessMessagesExit(r) ==
    /\ mp_pc[r] = "receive"
    /\ state[r] = "stopped"
    /\ mp_pc' = [mp_pc EXCEPT ![r] = "exited"]
    /\ UNCHANGED <<clientVars, now, raftVars, fileVars, lock, message_queues, timer_pc, mp_msg,
                   hbVars, mainVars, requests_left, votes>>

\* The message processor goes back to its loop
Return(r) ==
    /\ mp_pc' = [mp_pc EXCEPT ![r] = "receive"]
    /\ mp_msg' = [mp_msg EXCEPT ![r] = NoMessage]

\* process_messages: the loop is running and receive_message(self.server_id)
\* returns a message of the given type
Receives(r, type) ==
    /\ mp_pc[r] = "receive"
    /\ state[r] # "stopped"
    /\ HasMessage(message_queues, r)
    /\ Head(message_queues[r]).type = type

\* The message processor of r is at the `with self.lock:` of the handler of
\* a message of the given type: it has just received the message, or it
\* received it earlier and has been waiting for the lock since.
Takes(r, type) ==
    \/ Receives(r, type)
    \/ mp_pc[r] = "lock_wait" /\ mp_msg[r].type = type

\* The message being handled, and the mailboxes once it has been taken
\* (receive_message: message_queues[server_id].pop(0))
Taken(r) == IF mp_pc[r] = "lock_wait" THEN mp_msg[r] ELSE Head(message_queues[r])
Popped(r) ==
    IF mp_pc[r] = "lock_wait" THEN message_queues
    ELSE [message_queues EXCEPT ![r] = Tail(@)]

\* process_messages: the message is taken and its handler waits for the lock
\* of the replica that owns the handler.  (A handler that finds the lock
\* free runs in the same step as the receive.)
ReceiveBlocked(r) ==
    LET m == Head(message_queues[r])
    IN /\ \E type \in (RaftTypes \cup FileTypes \cup LeaseTypes) \ {"write_file"} :
            Receives(r, type)
       /\ ~Acquirable(lock[handlers[m.type]], Thread("mp", r))
       /\ message_queues' = Popped(r)
       /\ mp_pc' = [mp_pc EXCEPT ![r] = "lock_wait"]
       /\ mp_msg' = [mp_msg EXCEPT ![r] = m]
       /\ UNCHANGED <<clientVars, now, raftVars, fileVars, lock, timer_pc, hbVars, mainVars,
                      requests_left, votes>>

\* The consensus handlers, each the body of its `with self.lock:` block,
\* applied to the replica h that owns the registered handler.
Unchanged(h) ==
    [state |-> state[h], current_term |-> current_term[h],
     voted_for |-> voted_for[h], leader_id |-> leader_id[h],
     votes_received |-> votes_received[h], start_hb |-> FALSE, out |-> <<>>]

handle_request_vote(h, data) ==
    LET term == data.term
        candidate_id == data.candidate_id
        response_term == current_term[h]
        higher == term > current_term[h]
        ct1 == IF higher THEN term ELSE current_term[h]
        vf1 == IF higher THEN None ELSE voted_for[h]
        st1 == IF higher THEN "follower" ELSE state[h]
        grant == vf1 \in {None, candidate_id} /\ term >= ct1
    IN [Unchanged(h) EXCEPT
          !.state = st1,
          !.current_term = IF grant THEN term ELSE ct1,
          !.voted_for = IF grant THEN candidate_id ELSE vf1,
          !.out = <<[message |-> Message("vote_response",
                                         [term |-> response_term,
                                          vote_granted |-> grant,
                                          source_id |-> h]),
                     to |-> candidate_id]>>]

handle_vote_response(h, data) ==
    LET term == data.term
        n == votes_received[h] + 1
    IN IF state[h] # "candidate" THEN Unchanged(h)
       ELSE IF term > current_term[h]
       THEN [Unchanged(h) EXCEPT !.current_term = term, !.state = "follower",
                                 !.voted_for = None]
       ELSE IF term < current_term[h] THEN Unchanged(h)
       ELSE IF ~data.vote_granted THEN Unchanged(h)
       ELSE IF n > (Len(Peers(h)) + 1) \div 2
       THEN [Unchanged(h) EXCEPT !.votes_received = n, !.state = "leader",
                                 !.leader_id = h, !.start_hb = TRUE]
       ELSE [Unchanged(h) EXCEPT !.votes_received = n]

\* Variants of handle_append_entries used to test the claims below: one
\* that replaces a vote already cast, one that adopts a lower term
handle_append_entries_revote(h, data) ==
    LET term == data.term
        sender == data.leader_id
    IN IF term >= current_term[h]
       THEN [Unchanged(h) EXCEPT
               !.current_term = term, !.state = "follower",
               !.voted_for = IF voted_for[h] = None THEN sender ELSE h,
               !.leader_id = sender,
               !.out = <<[message |-> Message("append_entries_response",
                                              [term |-> term, success |-> TRUE]),
                          to |-> sender]>>]
       ELSE Unchanged(h)

handle_append_entries_lower_term(h, data) ==
    [Unchanged(h) EXCEPT !.current_term = data.term - 1, !.state = "follower",
                         !.leader_id = data.leader_id]

handle_append_entries(h, data) ==
    LET term == data.term
        sender == data.leader_id
    IN IF term >= current_term[h]
       THEN [Unchanged(h) EXCEPT
               !.current_term = term, !.state = "follower",
               !.voted_for = sender, !.leader_id = sender,
               !.out = <<[message |-> Message("append_entries_response",
                                              [term |-> term, success |-> TRUE]),
                          to |-> sender]>>]
       ELSE [Unchanged(h) EXCEPT
               !.out = <<[message |-> Message("append_entries_response",
                                              [term |-> current_term[h],
                                               success |-> FALSE]),
                          to |-> sender]>>]

\* Variant of handle_append_entries_response: an acknowledgement is taken
\* for a won election
handle_append_entries_response_wins(h, data) ==
    IF data.success
    THEN [Unchanged(h) EXCEPT !.state = "leader", !.leader_id = h]
    ELSE Unchanged(h)

handle_append_entries_response(h, data) ==
    IF data.term > current_term[h]
    THEN [Unchanged(h) EXCEPT !.current_term = data.term, !.state = "follower",
                              !.voted_for = None, !.leader_id = None]
    ELSE Unchanged(h)

\* process_messages: handler = self.network_manager.handlers.get(message.type);
\* handler(message.data) for the four consensus message types
HandleRaftMessage(r) ==
    LET m == Taken(r)
        h == handlers[m.type]
        res == CASE m.type = "request_vote" -> handle_request_vote(h, m.data)
                 [] m.type = "vote_response" -> handle_vote_response(h, m.data)
                 [] m.type = "append_entries" -> handle_append_entries(h, m.data)
                 [] OTHER -> handle_append_entries_response(h, m.data)
    IN /\ \E type \in RaftTypes : Takes(r, type)
       /\ Acquirable(lock[h], Thread("mp", r))
       /\ state' = [state EXCEPT ![h] = res.state]
       /\ current_term' = [current_term EXCEPT ![h] = res.current_term]
       /\ voted_for' = [voted_for EXCEPT ![h] = res.voted_for]
       /\ leader_id' = [leader_id EXCEPT ![h] = res.leader_id]
       /\ votes_received' = [votes_received EXCEPT ![h] = res.votes_received]
       /\ hb_pc' = IF res.start_hb THEN StartHeartbeats(hb_pc, h) ELSE hb_pc
       /\ message_queues' = SendAll(Popped(r), res.out)
       /\ votes' = RecordVote(votes, h, res.current_term, res.voted_for)
       /\ Return(r)
       /\ UNCHANGED <<clientVars, now, fileVars, lock, timer_pc, hb_peer, hb_sent, mainVars,
                      requests_left>>

\* ------------------------------------------------------------ file objects
FileVersion(content, timestamp, version) ==
    [content |-> content, timestamp |-> timestamp, version |-> version]

File(filename, owner_server_id) ==
    [filename |-> filename, owner_server_id |-> owner_server_id,
     versions |-> <<>>, lease |-> None]

\* Variant of add_version that numbers versions from the length of the list
add_version_from_zero(file, content) ==
    [file EXCEPT !.versions = Append(@, FileVersion(content, now, Len(@)))]

add_version(file, content) ==
    [file EXCEPT !.versions = Append(@, FileVersion(content, now, Len(@) + 1))]

get_latest_version(file) ==
    IF file.versions # <<>> THEN file.versions[Len(file.versions)] ELSE None

\* FileServer.read_file
read_file(fs, filename) ==
    IF filename \in DOMAIN fs
    THEN LET latest_version == get_latest_version(fs[filename])
         IN IF latest_version # None THEN latest_version.content ELSE ""
    ELSE ""

\* FileServer.save_file: the record written under the key (filename, server)
save_file(st, h, filename, file) ==
    LET key == <<filename, h>>
        file_data == [filename |-> filename,
                      owner_server_id |-> file.owner_server_id,
                      versions |-> file.versions]
    IN [k \in DOMAIN st \cup {key} |-> IF k = key THEN file_data ELSE st[k]]

\* FileServer.delete_file: os.remove of the record when it exists
remove_file(st, h, filename) ==
    [k \in DOMAIN st \ {<<filename, h>>} |-> st[k]]

\* FileServer.replicate_log
replicate_log(lg, term, entry) == Append(lg, [term |-> term, entry |-> entry])

Response(type, data, client_id) ==
    <<[message |-> Message(type, data), to |-> client_id]>>

\* ---------------------------------------------------------------- clients
\* Client.create_file / read_file / write_file / delete_file: send_request
\* enqueues the request at the client's connected server.  Clients exist
\* once the harness has designated the leader.
\* Here the call is followed no further than its request; ClientCall below
\* follows it to its return.
ClientRequest(c) ==
    /\ main_pc \in {"running", "done"}
    /\ requests_left > 0
    /\ \E type \in FileTypes, filename \in Filenames, content \in Contents :
         message_queues' =
           send_message(message_queues,
                        Message(type,
                                IF type = "write_file"
                                THEN [filename |-> filename, content |-> content,
                                      client_id |-> c]
                                ELSE [filename |-> filename, client_id |-> c]),
                        ConnectedServer[c])
    /\ requests_left' = requests_left - 1
    /\ UNCHANGED <<clientVars, now, raftVars, fileVars, lock, timer_pc, mpVars, hbVars, mainVars,
                   votes>>

\* The type of the response a call waits for
ResponseType(type) ==
    CASE type = "create_file" -> "create_file_response"
      [] type = "read_file" -> "read_file_response"
      [] type = "write_file" -> "write_file_response"
      [] OTHER -> "delete_file_response"

\* Client.create_file / read_file / write_file / delete_file up to the wait
\* loop: the request is sent and the call waits for a response of its type.
\* main.py makes its client calls one after the other.
ClientCall(c) ==
    /\ main_pc \in {"running", "done"}
    /\ requests_left > 0
    /\ \A d \in Clients : client_pc[d] = "idle"
    /\ \E type \in FileTypes, filename \in Filenames, content \in Contents :
         /\ message_queues' =
              send_message(message_queues,
                           Message(type,
                                   IF type = "write_file"
                                   THEN [filename |-> filename, content |-> content,
                                         client_id |-> c]
                                   ELSE [filename |-> filename, client_id |-> c]),
                           ConnectedServer[c])
         /\ client_call' = [client_call EXCEPT ![c] = type]
    /\ client_pc' = [client_pc EXCEPT ![c] = "wait"]
    /\ requests_left' = requests_left - 1
    /\ UNCHANGED <<message_queue, now, raftVars, fileVars, lock, timer_pc, mpVars,
                   hbVars, mainVars, votes>>

\* Client.process_responses: a message taken from the client's mailbox is
\* appended to the client's own list
ProcessResponses(c) ==
    /\ HasMessage(message_queues, c)
    /\ message_queues' = [message_queues EXCEPT ![c] = Tail(@)]
    /\ message_queue' = [message_queue EXCEPT ![c] = Append(@, Head(message_queues[c]))]
    /\ UNCHANGED <<client_pc, client_call, now, raftVars, fileVars, lock, timer_pc,
                   mpVars, hbVars, mainVars, requests_left, votes>>

\* One iteration of the wait loop of a call in which receive_response
\* returns a message: the call returns when the message has the type it
\* waits for, and logs a warning and goes on waiting otherwise
ReceiveResponse(c) ==
    /\ client_pc[c] = "wait"
    /\ message_queue[c] # <<>>
    /\ message_queue' = [message_queue EXCEPT ![c] = Tail(@)]
    /\ IF Head(message_queue[c]).type = ResponseType(client_call[c])
       THEN /\ client_pc' = [client_pc EXCEPT ![c] = "idle"]
            /\ client_call' = [client_call EXCEPT ![c] = None]
       ELSE UNCHANGED <<client_pc, client_call>>
    /\ UNCHANGED <<now, raftVars, fileVars, lock, message_queues, timer_pc,
                   mpVars, hbVars, mainVars, requests_left, votes>>

\* The wait loop of a call ends because its five seconds have passed
CallTimeout(c) ==
    /\ client_pc[c] = "wait"
    /\ client_pc' = [client_pc EXCEPT ![c] = "idle"]
    /\ client_call' = [client_call EXCEPT ![c] = None]
    /\ UNCHANGED <<message_queue, now, raftVars, fileVars, lock, message_queues,
                   timer_pc, mpVars, hbVars, mainVars, requests_left, votes>>

\* ------------------------------------------------------ file-op handlers
\* The message processor holds the lock of h and waits at a nested
\* `with self.lock:` of the operation named by where
Block(r, h, m, where) ==
    /\ lock' = [lock EXCEPT ![h] = Thread("mp", r)]
    /\ mp_pc' = [mp_pc EXCEPT ![r] = where]
    /\ mp_msg' = [mp_msg EXCEPT ![r] = m]

\* handle_create_file: create_file(filename), then the response
HandleCreateFile(r) ==
    LET m == Taken(r)
        h == handlers[m.type]
        t == Thread("mp", r)
        filename == m.data.filename
        new_file == add_version(File(filename, h), "")
        created == files[h] @@ (filename :> new_file)
    IN /\ Takes(r, "create_file")
       /\ Acquirable(lock[h], t)
       /\ IF filename \notin DOMAIN files[h]
          THEN /\ files' = [files EXCEPT ![h] = created]
               /\ IF Acquirable(t, t)
                  THEN /\ storage' = save_file(storage, h, filename, new_file)
                       /\ log' = IF state[h] = "leader"
                                 THEN [log EXCEPT ![h] =
                                         replicate_log(@, current_term[h],
                                                       [operation |-> "create_file",
                                                        filename |-> filename])]
                                 ELSE log
                       /\ message_queues' =
                            SendAll(Popped(r),
                                    Response("create_file_response",
                                             [success |-> TRUE], m.data.client_id))
                       /\ Return(r)
                       /\ UNCHANGED lock
                  ELSE /\ Block(r, h, m, "save_file")
                       /\ message_queues' = Popped(r)
                       /\ UNCHANGED <<storage, log>>
          ELSE /\ message_queues' =
                    SendAll(Popped(r),
                            Response("create_file_response",
                                     [success |-> FALSE], m.data.client_id))
               /\ Return(r)
               /\ UNCHANGED <<files, storage, log, lock>>
       /\ UNCHANGED <<clientVars, now, raftVars, timer_pc, hbVars, mainVars, requests_left, votes>>

\* handle_read_file: read_file(filename), then the response
HandleReadFile(r) ==
    LET m == Taken(r)
        h == handlers[m.type]
    IN /\ Takes(r, "read_file")
       /\ Acquirable(lock[h], Thread("mp", r))
       /\ message_queues' =
            SendAll(Popped(r),
                    Response("read_file_response",
                             [content |-> read_file(files[h], m.data.filename)],
                             m.data.client_id))
       /\ Return(r)
       /\ UNCHANGED <<clientVars, now, raftVars, fileVars, lock, timer_pc, hbVars, mainVars,
                      requests_left, votes>>

\* handle_delete_file: delete_file(filename), then the response
HandleDeleteFile(r) ==
    LET m == Taken(r)
        h == handlers[m.type]
        t == Thread("mp", r)
        filename == m.data.filename
    IN /\ Takes(r, "delete_file")
       /\ Acquirable(lock[h], t)
       /\ IF filename \in DOMAIN files[h]
          THEN /\ files' = [files EXCEPT ![h] =
                              [f \in DOMAIN @ \ {filename} |-> @[f]]]
               /\ storage' = remove_file(storage, h, filename)
               /\ IF state[h] = "leader" /\ ~Acquirable(t, t)
                  THEN /\ Block(r, h, m, "replicate_log")
                       /\ message_queues' = Popped(r)
                       /\ UNCHANGED log
                  ELSE /\ log' = IF state[h] = "leader"
                                 THEN [log EXCEPT ![h] =
                                         replicate_log(@, current_term[h],
                                                       [operation |-> "delete_file",
                                                        filename |-> filename])]
                                 ELSE log
                       /\ message_queues' =
                            SendAll(Popped(r),
                                    Response("delete_file_response",
                                             [success |-> TRUE], m.data.client_id))
                       /\ Return(r)
                       /\ UNCHANGED lock
          ELSE /\ message_queues' =
                    SendAll(Popped(r),
                            Response("delete_file_response",
                                     [success |-> FALSE], m.data.client_id))
               /\ Return(r)
               /\ UNCHANGED <<files, storage, log, lock>>
       /\ UNCHANGED <<clientVars, now, raftVars, timer_pc, hbVars, mainVars, requests_left, votes>>

\* handle_write_file, `if self.state != 'leader' and self.leader_id:` read
\* without the lock; the request is forwarded as it came
HandleWriteFile(r) ==
    LET m == Head(message_queues[r])
        h == handlers[m.type]
    IN /\ Receives(r, "write_file")
       /\ IF state[h] # "leader" /\ leader_id[h] # None
          THEN /\ message_queues' =
                    send_message(Popped(r), Message("write_file", m.data),
                                 leader_id[h])
               /\ Return(r)
          ELSE /\ mp_pc' = [mp_pc EXCEPT ![r] = "elif"]
               /\ message_queues' = Popped(r)
               /\ mp_msg' = [mp_msg EXCEPT ![r] = m]
       /\ UNCHANGED <<clientVars, now, raftVars, fileVars, lock, timer_pc, hbVars, mainVars,
                      requests_left, votes>>

\* handle_write_file, `elif self.state == 'leader':` read again without the
\* lock; otherwise the request is dropped with an error log
HandleWriteFileElif(r) ==
    LET h == handlers[mp_msg[r].type]
    IN /\ mp_pc[r] = "elif"
       /\ IF state[h] = "leader"
          THEN /\ mp_pc' = [mp_pc EXCEPT ![r] = "write_file"]
               /\ UNCHANGED mp_msg
          ELSE Return(r)
       /\ UNCHANGED <<clientVars, now, raftVars, fileVars, lock, message_queues, timer_pc, hbVars,
                      mainVars, requests_left, votes>>

\* handle_write_file in the leader branch: write_file(filename, content)
\* under the lock, then the write_file_response.  In write_file a replica
\* that is no longer leader and knows a leader reads self.client_id, which
\* no FileServer has: the AttributeError ends the handler without a response.
WriteFile(r) ==
    LET m == mp_msg[r]
        h == handlers[m.type]
        t == Thread("mp", r)
        filename == m.data.filename
        written == add_version(files[h][filename], m.data.content)
        ack == SendAll(message_queues,
                       Response("write_file_response", [success |-> TRUE],
                                m.data.client_id))
    IN /\ mp_pc[r] = "write_file"
       /\ Acquirable(lock[h], t)
       /\ IF state[h] # "leader"
          THEN /\ message_queues' = IF leader_id[h] # None THEN message_queues ELSE ack
               /\ Return(r)
               /\ UNCHANGED <<files, storage, log, lock>>
          ELSE IF filename \in DOMAIN files[h]
          THEN /\ files' = [files EXCEPT ![h][filename] = written]
               /\ IF Acquirable(t, t)
                  THEN /\ storage' = save_file(storage, h, filename, written)
                       /\ log' = [log EXCEPT ![h] =
                                    replicate_log(@, current_term[h],
                                                  [operation |-> "write_file",
                                                   filename |-> filename,
                                                   content |-> m.data.content])]
                       /\ message_queues' = ack
                       /\ Return(r)
                       /\ UNCHANGED lock
                  ELSE /\ Block(r, h, m, "save_file")
                       /\ UNCHANGED <<storage, log, message_queues>>
          ELSE /\ message_queues' = ack
               /\ Return(r)
               /\ UNCHANGED <<files, storage, log, lock>>
       /\ UNCHANGED <<clientVars, now, raftVars, timer_pc, hbVars, mainVars, requests_left, votes>>

\* ------------------------------------------------------------------ leases
\* Lease(lessee, expiry_time) and Lease.is_expired: time.time() > expiry_time
Lease(lessee, expiry_time) == [lessee |-> lessee, expiry_time |-> expiry_time]
is_expired(lease) == now > lease.expiry_time

\* time.time() advances
Tick ==
    /\ now < MaxTime
    /\ now' = now + 1
    /\ UNCHANGED <<clientVars, raftVars, fileVars, lock, message_queues, timer_pc, mpVars,
                   hbVars, mainVars, requests_left, votes>>

\* No method of Client builds a lease message: a caller passes the message
\* to Client.send_request, which enqueues it at the connected server.
SendLeaseRequest(c) ==
    /\ main_pc \in {"running", "done"}
    /\ requests_left > 0
    /\ \E filename \in Filenames, lessee_id \in Servers :
          \/ \E duration \in Durations :
                message_queues' =
                  send_message(message_queues,
                               Message("request_lease",
                                       [filename |-> filename, duration |-> duration,
                                        lessee_id |-> lessee_id]),
                               ConnectedServer[c])
          \/ message_queues' =
               send_message(message_queues,
                            Message("release_lease",
                                    [filename |-> filename, lessee_id |-> lessee_id]),
                            ConnectedServer[c])
    /\ requests_left' = requests_left - 1
    /\ UNCHANGED <<clientVars, now, raftVars, fileVars, lock, timer_pc, mpVars, hbVars,
                   mainVars, votes>>

\* handle_request_lease: the grant or denial is the handler's return value,
\* which process_messages drops; no message is sent
HandleRequestLease(r) ==
    LET m == Taken(r)
        h == handlers[m.type]
        filename == m.data.filename
        granted == filename \in DOMAIN files[h]
                   /\ (files[h][filename].lease = None
                       \/ is_expired(files[h][filename].lease))
    IN /\ Takes(r, "request_lease")
       /\ Acquirable(lock[h], Thread("mp", r))
       /\ files' = IF granted
                   THEN [files EXCEPT ![h][filename].lease =
                           Lease(m.data.lessee_id, now + m.data.duration)]
                   ELSE files
       /\ message_queues' = Popped(r)
       /\ Return(r)
       /\ UNCHANGED <<clientVars, now, raftVars, storage, log, lock, timer_pc, hbVars,
                      mainVars, requests_left, votes>>

\* handle_release_lease
HandleReleaseLease(r) ==
    LET m == Taken(r)
        h == handlers[m.type]
        filename == m.data.filename
        released == filename \in DOMAIN files[h]
                    /\ files[h][filename].lease # None
                    /\ files[h][filename].lease.lessee = m.data.lessee_id
    IN /\ Takes(r, "release_lease")
       /\ Acquirable(lock[h], Thread("mp", r))
       /\ files' = IF released
                   THEN [files EXCEPT ![h][filename].lease = None]
                   ELSE files
       /\ message_queues' = Popped(r)
       /\ Return(r)
       /\ UNCHANGED <<clientVars, now, raftVars, storage, log, lock, timer_pc, hbVars,
                      mainVars, requests_left, votes>>

\* manage_leases: one sweep of the replica's own files under its lock
ManageLeases(r) ==
    /\ Acquirable(lock[r], Thread("lease_manager", r))
    /\ files' = [files EXCEPT ![r] =
                   [f \in DOMAIN @ |->
                      IF @[f].lease # None /\ is_expired(@[f].lease)
                      THEN [@[f] EXCEPT !.lease = None]
                      ELSE @[f]]]
    /\ UNCHANGED <<clientVars, now, raftVars, storage, log, lock, message_queues, timer_pc,
                   mpVars, hbVars, mainVars, requests_left, votes>>

Next ==
    \/ ChooseLeader
    \/ BecomeLeader
    \/ StopLeader
    \/ \E c \in Clients : ClientRequest(c)
    \/ \E r \in Servers :
         \/ ElectionTimerExit(r)
         \/ ElectionTimeout(r)
         \/ HeartbeatCheck(r)
         \/ HeartbeatSend(r)
         \/ ProcessMessagesExit(r)
         \/ ReceiveBlocked(r)
         \/ HandleRaftMessage(r)
         \/ HandleCreateFile(r)
         \/ HandleReadFile(r)
         \/ HandleDeleteFile(r)
         \/ HandleWriteFile(r)
         \/ HandleWriteFileElif(r)
         \/ WriteFile(r)
         \/ ManageLeases(r)

Spec == Init /\ [][Next]_vars


\* Every thread that can run does run: the harness goes through its script,
\* and the election timer, the heartbeat loop and the message processor of
\* every replica are scheduled again and again.  Clients are free to send
\* requests or not.
TimerStep(r) == ElectionTimerExit(r) \/ ElectionTimeout(r)
HeartbeatStep(r) == HeartbeatCheck(r) \/ HeartbeatSend(r)
MessageStep(r) ==
    \/ ProcessMessagesExit(r)
    \/ ReceiveBlocked(r)
    \/ HandleRaftMessage(r)
    \/ HandleCreateFile(r)
    \/ HandleReadFile(r)
    \/ HandleDeleteFile(r)
    \/ HandleWriteFile(r)
    \/ HandleWriteFileElif(r)
    \/ WriteFile(r)

FairSpec ==
    /\ Spec
    /\ WF_vars(ChooseLeader) /\ WF_vars(BecomeLeader) /\ WF_vars(StopLeader)
    /\ \A r \in Servers :
         WF_vars(TimerStep(r)) /\ WF_vars(HeartbeatStep(r)) /\ WF_vars(MessageStep(r))

\* A run in which clients send one request more, with the consensus traffic
\* and the stopping of the leader left out: the harness designates the
\* leader, clients send file requests and the message processors handle them.
InitFiles ==
    /\ state = [r \in Servers |-> "follower"]
    /\ current_term = [r \in Servers |-> 0]
    /\ voted_for = [r \in Servers |-> None]
    /\ leader_id = [r \in Servers |-> None]
    /\ votes_received = [r \in Servers |-> 0]
    /\ log = [r \in Servers |-> <<>>]
    /\ files = [r \in Servers |-> [f \in {} |-> None]]
    /\ storage = [k \in {} |-> None]
    /\ lock = [r \in Servers |-> NoThread]
    /\ message_queues = [x \in {} |-> <<>>]
    /\ timer_pc = [r \in Servers |-> "run"]
    /\ mp_pc = [r \in Servers |-> "receive"]
    /\ mp_msg = [r \in Servers |-> NoMessage]
    /\ hb_pc = [r \in Servers |-> None]
    /\ hb_peer = [r \in Servers |-> 0]
    /\ hb_sent = [r \in Servers |-> 0]
    /\ main_pc = "start"
    /\ initial_leader = None
    /\ requests_left = MaxRequests + 1
    /\ votes = [r \in Servers |-> {}]
    /\ now = 0
    /\ message_queue = [c \in Clients |-> <<>>]
    /\ client_pc = [c \in Clients |-> "idle"]
    /\ client_call = [c \in Clients |-> None]

FileStep(r) ==
    \/ ReceiveBlocked(r)
    \/ HandleCreateFile(r)
    \/ HandleReadFile(r)
    \/ HandleDeleteFile(r)
    \/ HandleWriteFile(r)
    \/ HandleWriteFileElif(r)
    \/ WriteFile(r)

NextFiles ==
    \/ ChooseLeader
    \/ BecomeLeader
    \/ \E c \in Clients : ClientRequest(c)
    \/ \E r \in Servers : FileStep(r)

FairSpecFiles ==
    /\ InitFiles
    /\ [][NextFiles]_vars
    /\ WF_vars(ChooseLeader) /\ WF_vars(BecomeLeader)
    /\ \A r \in Servers : WF_vars(FileStep(r))

\* A consensus message handed to Client.send_request: the transport and the
\* handlers take any message of a registered type from any caller.
ProtocolMessages ==
    {Message("request_vote",
             [term |-> t, candidate_id |-> p, last_log_index |-> 0,
              last_log_term |-> 0, source_id |-> p]) :
        t \in 0..MaxTerm, p \in Servers}
    \cup {Message("vote_response", [term |-> t, vote_granted |-> g, source_id |-> p]) :
            t \in 0..MaxTerm, g \in BOOLEAN, p \in Servers}
    \cup {Message("append_entries",
                  [term |-> t, leader_id |-> p, prev_log_index |-> 0 - 1,
                   prev_log_term |-> 0, entries |-> <<>>,
                   leader_commit |-> commit_index]) :
            t \in 0..MaxTerm, p \in Servers}
    \cup {Message("append_entries_response", [term |-> t, success |-> g]) :
            t \in 0..MaxTerm, g \in BOOLEAN}

SendProtocolMessage(c) ==
    /\ main_pc \in {"running", "done"}
    /\ requests_left > 0
    /\ \E message \in ProtocolMessages :
          message_queues' = send_message(message_queues, message, ConnectedServer[c])
    /\ requests_left' = requests_left - 1
    /\ UNCHANGED <<clientVars, now, raftVars, fileVars, lock, timer_pc, mpVars, hbVars,
                   mainVars, votes>>

NextProtocol ==
    \/ ChooseLeader
    \/ BecomeLeader
    \/ \E c \in Clients : SendProtocolMessage(c)
    \/ \E r \in Servers :
         \/ HeartbeatCheck(r)
         \/ HeartbeatSend(r)
         \/ HandleRaftMessage(r)

SpecProtocol == Init /\ [][NextProtocol]_vars

\* The file scenario with time passing and lease messages sent through
\* Client.send_request
LeaseStep(r) ==
    \/ FileStep(r)
    \/ HandleRequestLease(r)
    \/ HandleReleaseLease(r)
    \/ ManageLeases(r)

NextLeases ==
    \/ ChooseLeader
    \/ BecomeLeader
    \/ Tick
    \/ \E c \in Clients : ClientRequest(c) \/ SendLeaseRequest(c)
    \/ \E r \in Servers : LeaseStep(r)

SpecLeases == InitFiles /\ [][NextLeases]_vars

\* The file scenario with the client calls followed to their return
ClientStep(c) ==
    \/ ClientCall(c)
    \/ ProcessResponses(c)
    \/ ReceiveResponse(c)
    \/ CallTimeout(c)

NextClients ==
    \/ ChooseLeader
    \/ BecomeLeader
    \/ \E c \in Clients : ClientStep(c)
    \/ \E r \in Servers : FileStep(r)

SpecClients == InitFiles /\ [][NextClients]_vars

\* ================================================================= claims
\* The messages waiting in a mailbox, and whether a step added none to the
\* mailbox of any client
Mailbox(mq, id) == IF id \in DOMAIN mq THEN mq[id] ELSE <<>>
Holds(mq, id, type, data) ==
    \E i \in 1..Len(Mailbox(mq, id)) : Mailbox(mq, id)[i] = Message(type, data)
NoResponse ==
    \A c \in Clients : Mailbox(message_queues', c) = Mailbox(message_queues, c)
PendingAppendEntries ==
    \E id \in DOMAIN message_queues :
       \E i \in 1..Len(message_queues[id]) :
          message_queues[id][i].type = "append_entries"

\* C1: in every reachable state and for every term T, at most one replica
\* has role leader with current_term = T.
C1_AtMostOneLeaderPerTerm ==
    \A r1, r2 \in Servers :
       (state[r1] = "leader" /\ state[r2] = "leader"
        /\ current_term[r1] = current_term[r2]) => r1 = r2

\* A leader and, in the same term, another replica that has accepted it
C1_LeaderWithFollower ==
    \E r1, r2 \in Servers :
       /\ r1 # r2
       /\ state[r1] = "leader"
       /\ current_term[r2] = current_term[r1]
       /\ state[r2] = "follower"
       /\ leader_id[r2] = r1

C4_LeaderFailover ==
    (main_pc = "done") ~>
       (\E r \in Servers \ {initial_leader} :
           state[r] = "leader" /\ current_term[r] > current_term[initial_leader])


\* C5: once a client holds write_file_response{success=true} for a write to
\* a file present in the map of the replica that applied it, a read_file of
\* that file at a running replica returns the written content.  The
\* condition of the claim is stated here; no reachable state satisfies it.
C5_AcknowledgedWriteToExistingFile ==
    \E c \in Clients, r \in Servers, f \in Filenames :
       /\ Holds(message_queues, c, "write_file_response", [success |-> TRUE])
       /\ f \in DOMAIN files[r]
       /\ Len(files[r][f].versions) > 1

\* C6: a create_file or delete_file request processed by a replica that is
\* not leader leaves that replica's file map as it was and sends no response
\* to any client; the request is forwarded to the replica's leader_id, or
\* dropped when it knows no leader.
C6_CreateDeleteLeaderOnly ==
    [][\A r \in Servers :
          ((HandleCreateFile(r) \/ HandleDeleteFile(r)) /\ state[r] # "leader")
          => /\ files'[r] = files[r]
             /\ NoResponse
             /\ message_queues' =
                  IF leader_id[r] # None
                  THEN send_message(Popped(r), Taken(r), leader_id[r])
                  ELSE Popped(r)]_vars

\* C7: when a leader processes create_file for a filename absent from its
\* map, write_file or delete_file for a filename present in its map, the
\* handling completes with the map updated (a new file with exactly one
\* empty version / one more version holding the content / the file
\* removed), exactly one entry {term: current_term, entry: operation}
\* appended to its log and exactly one matching response with success=true
\* sent to the request's client_id.
C7_SuccessfulMutationAtLeader ==
    [][\A r \in Servers :
          LET m == IF mp_pc[r] = "write_file" THEN mp_msg[r] ELSE Taken(r)
              f == m.data.filename
              Completes(type, op) ==
                  /\ log'[r] = Append(log[r], [term |-> current_term[r], entry |-> op])
                  /\ message_queues' =
                       send_message(IF mp_pc[r] = "write_file"
                                    THEN message_queues ELSE Popped(r),
                                    Message(type, [success |-> TRUE]),
                                    m.data.client_id)
                  /\ mp_pc'[r] = "receive"
                  /\ lock'[r] = NoThread
          IN /\ (HandleCreateFile(r) /\ state[r] = "leader" /\ f \notin DOMAIN files[r])
                => /\ DOMAIN files'[r] = DOMAIN files[r] \cup {f}
                   /\ files'[r][f].versions = <<FileVersion("", now, 1)>>
                   /\ Completes("create_file_response",
                                [operation |-> "create_file", filename |-> f])
             /\ (WriteFile(r) /\ state[r] = "leader" /\ f \in DOMAIN files[r])
                => /\ files'[r] = [files[r] EXCEPT ![f] = add_version(@, m.data.content)]
                   /\ Completes("write_file_response",
                                [operation |-> "write_file", filename |-> f,
                                 content |-> m.data.content])
             /\ (HandleDeleteFile(r) /\ state[r] = "leader" /\ f \in DOMAIN files[r])
                => /\ DOMAIN files'[r] = DOMAIN files[r] \ {f}
                   /\ Completes("delete_file_response",
                                [operation |-> "delete_file", filename |-> f])]_vars

\* C8: when a leader processes write_file for a filename that is not in its
\* file map, it sends no write_file_response (no message at all) and its
\* file map and log are unchanged.
C8_WriteToMissingFile ==
    [][\A r \in Servers :
          (WriteFile(r) /\ state[r] = "leader"
           /\ mp_msg[r].data.filename \notin DOMAIN files[r])
          => /\ message_queues' = message_queues
             /\ files'[r] = files[r]
             /\ log'[r] = log[r]]_vars

\* C9: a create_file for a filename already in the handling replica's map,
\* and a delete_file for a filename not in its map, is answered with the
\* matching response with success=false.
\* (That the handling leaves the map, the log and the persisted records
\* unchanged is C9_FailureMutatesNothing.)
FailingRequest(r, c) ==
    LET Fails(m) ==
          /\ m.data.client_id = c
          /\ \/ m.type = "create_file" /\ m.data.filename \in DOMAIN files[r]
             \/ m.type = "delete_file" /\ m.data.filename \notin DOMAIN files[r]
    IN \/ mp_pc[r] = "receive" /\ HasMessage(message_queues, r)
          /\ Fails(Head(message_queues[r]))
       \/ mp_pc[r] = "lock_wait" /\ Fails(mp_msg[r])

FailureResponse(c) ==
    \/ Holds(message_queues, c, "create_file_response", [success |-> FALSE])
    \/ Holds(message_queues, c, "delete_file_response", [success |-> FALSE])

C9_FailureIsAnswered ==
    \A r \in Servers, c \in Clients : FailingRequest(r, c) ~> FailureResponse(c)

\* C10: a write_file request processed by a replica that is not leader and
\* knows a leader results in exactly one write_file message with the same
\* filename, content and client_id enqueued to its leader_id and nothing
\* else; when it knows no leader, no message is sent; in neither case does
\* the replica's file map or log change.
C10_WriteForwarding ==
    [][\A r \in Servers :
          /\ (HandleWriteFile(r) /\ state[r] # "leader")
             => /\ message_queues' =
                     IF leader_id[r] # None
                     THEN send_message(Popped(r),
                                       Message("write_file", Taken(r).data),
                                       leader_id[r])
                     ELSE Popped(r)
                /\ files'[r] = files[r]
                /\ log'[r] = log[r]
          /\ (WriteFile(r) /\ state[r] # "leader")
             => /\ message_queues' = message_queues
                /\ files'[r] = files[r]
                /\ log'[r] = log[r]]_vars


\* C11: while a file carries a lease whose expiry has not passed, every
\* request_lease for it on that replica is denied and leaves the lease as it
\* is.  The condition of the claim is stated here; no reachable state
\* satisfies it.
C11_LeaseHeld ==
    \E r \in Servers : \E f \in DOMAIN files[r] : files[r][f].lease # None

\* C12: every step leaves every mailbox equal to what it was, less at most
\* its first message (taken by the recipient's receive), plus the messages
\* sent to the recipient appended at its end in send order; no mailbox
\* disappears, and a send to a recipient without a mailbox creates it.
C12_TransportFIFO ==
    [][/\ DOMAIN message_queues \subseteq DOMAIN message_queues'
       /\ \A id \in DOMAIN message_queues' :
             LET old == Mailbox(message_queues, id)
                 new == message_queues'[id]
             IN \E k \in {0, 1} :
                   /\ k <= Len(old)
                   /\ Len(new) >= Len(old) - k
                   /\ SubSeq(new, 1, Len(old) - k) = SubSeq(old, k + 1, Len(old))
                   /\ k = 1 => \/ /\ id \in Servers
                                  /\ mp_pc[id] = "receive"
                                  /\ mp_pc'[id] # "receive" => mp_msg'[id] = Head(old)
                               \/ /\ id \in Clients
                                  /\ message_queue'[id] =
                                       Append(message_queue[id], Head(old))]_vars

\* A mailbox holds messages of two senders while its owner is receiving
C12_TwoSendersOneMailbox ==
    \E id \in DOMAIN message_queues :
       /\ Len(message_queues[id]) >= 2
       /\ message_queues[id][1].type # message_queues[id][2].type
       /\ mp_pc[id] = "receive"

\* C13: once the role of a replica is stopped, it is stopped in every later
\* state.
C13_StoppedIsSticky ==
    [][\A r \in Servers : state[r] = "stopped" => state'[r] = "stopped"]_vars

\* C14: every file on every replica has a non-empty versions list whose
\* version numbers are exactly 1..N in list order and whose timestamps are
\* non-decreasing.
C14_VersionMonotonicity ==
    \A r \in Servers : \A f \in DOMAIN files[r] :
       LET v == files[r][f].versions
       IN /\ v # <<>>
          /\ \A i \in 1..Len(v) : v[i].version = i
          /\ \A i \in 1..(Len(v) - 1) : v[i].timestamp <= v[i + 1].timestamp

\* A file created after time has passed
C14_FileCreatedLater ==
    \E r \in Servers : \E f \in DOMAIN files[r] :
       /\ files[r][f].versions # <<>>
       /\ files[r][f].versions[1].timestamp > 0

\* C15: the terms of the log entries of every replica are non-decreasing
\* with index and the log only grows at its end.  The case of the claim, a
\* log that holds an entry, is stated here; no reachable state satisfies it.
C15_LogHoldsEntry == \E r \in Servers : log[r] # <<>>

\* C16: whenever the election timer of a running follower or candidate
\* finds the timeout elapsed, the timer step completes with role candidate,
\* current_term increased by exactly 1, voted_for the replica's own id and
\* one request_vote carrying the new term enqueued to every peer.
C16_ElectionOnTimeout ==
    [][\A r \in Servers :
          ElectionTimeout(r)
          => /\ state'[r] = "candidate"
             /\ current_term'[r] = current_term[r] + 1
             /\ voted_for'[r] = r
             /\ timer_pc'[r] = "run"
             /\ lock'[r] = NoThread
             /\ \A i \in 1..Len(Peers(r)) :
                   LET new == Mailbox(message_queues', Peers(r)[i])
                   IN /\ Len(new) = Len(Mailbox(message_queues, Peers(r)[i])) + 1
                      /\ new[Len(new)].type = "request_vote"
                      /\ new[Len(new)].data.term = current_term[r] + 1
                      /\ new[Len(new)].data.candidate_id = r]_vars


\* C17: a candidate that has processed the granted vote_responses of a
\* strict majority while still candidate in its term is leader in that term.
\* The case of the claim, a replica in role candidate, is stated here; no
\* reachable state satisfies it.
C17_Candidate == \E r \in Servers : state[r] = "candidate"

\* C18: whenever a replica in role candidate or leader processes a consensus
\* message whose term is strictly greater than its current_term, afterwards
\* its role is follower and its current_term is the term of the message.
C18_HigherTermDemotion ==
    [][\A r \in Servers :
          (/\ HandleRaftMessage(r)
           /\ state[r] \in {"candidate", "leader"}
           /\ Taken(r).data.term > current_term[r])
          => /\ state'[r] = "follower"
             /\ current_term'[r] = Taken(r).data.term]_vars

\* C19: every vote_response carries the current_term the responder has when
\* the response is sent, and a response that grants a vote to a request of
\* term T carries term T.
C19_VoteResponseTerm ==
    [][\A r \in Servers :
          (HandleRaftMessage(r) /\ Taken(r).type = "request_vote")
          => LET request == Taken(r).data
                 new == Mailbox(message_queues', request.candidate_id)
                 response == new[Len(new)]
             IN /\ new # <<>>
                /\ response.type = "vote_response"
                /\ response.data.term = current_term'[response.data.source_id]
                /\ response.data.vote_granted => response.data.term = request.term]_vars

\* C20: a replica processing append_entries accepts iff the term of the
\* message is at least its current_term; on acceptance its current_term is
\* the term of the message, its role follower and its leader_id the sender,
\* and it replies success=true with that term; otherwise it replies
\* success=false with its own term and its current_term, role, voted_for
\* and leader_id are unchanged.
C20_AppendEntriesAcceptance ==
    [][\A r \in Servers :
          (HandleRaftMessage(r) /\ Taken(r).type = "append_entries")
          => LET d == Taken(r).data
                 new == Mailbox(message_queues', d.leader_id)
                 Replied(term, success) ==
                     /\ new # <<>>
                     /\ new[Len(new)] = Message("append_entries_response",
                                                [term |-> term, success |-> success])
             IN IF d.term >= current_term[r]
                THEN /\ current_term'[r] = d.term
                     /\ state'[r] = "follower"
                     /\ leader_id'[r] = d.leader_id
                     /\ Replied(d.term, TRUE)
                ELSE /\ Replied(current_term[r], FALSE)
                     /\ current_term'[r] = current_term[r]
                     /\ state'[r] = state[r]
                     /\ voted_for'[r] = voted_for[r]
                     /\ leader_id'[r] = leader_id[r]]_vars

\* C21: a thread that has acquired the lock of a replica eventually releases
\* it, also when it calls another operation of the same replica that takes
\* the lock; no thread waits forever for the lock of its replica.
C21_NoSelfDeadlock ==
    \A r \in Servers : (lock[r] # NoThread) ~> (lock[r] = NoThread)

\* C22: a message dequeued from the mailbox of replica r is handled by r:
\* the step reads and changes only r's own consensus state, log and file
\* map, and leaves those of every other replica unchanged.
C22_PerReplicaHandling ==
    [][\A r \in Servers :
          MessageStep(r)
          => \A s \in Servers \ {r} :
                /\ state'[s] = state[s]
                /\ current_term'[s] = current_term[s]
                /\ voted_for'[s] = voted_for[s]
                /\ leader_id'[s] = leader_id[s]
                /\ votes_received'[s] = votes_received[s]
                /\ log'[s] = log[s]
                /\ files'[s] = files[s]]_vars

\* C23: every append_entries carrying term T and leader_id L is emitted while
\* L has role leader with current_term = T.  (The message carries the
\* current_term L has when it is sent, so the role at the send decides.)
C23_HeartbeatProvenance ==
    [][\A r \in Servers : HeartbeatSend(r) => state[r] = "leader"]_vars

\* C24: every write_file_response{success=true} sent to a client comes from
\* a handling in which a replica that was leader appended a new version
\* holding the request's content to the named file.
C24_AcknowledgedWriteApplied ==
    [][\A c \in Clients :
          LET old == Mailbox(message_queues, c)
              new == Mailbox(message_queues', c)
          IN (/\ Len(new) > Len(old)
              /\ new[Len(new)] = Message("write_file_response", [success |-> TRUE]))
             => \E r, s \in Servers :
                   LET f == mp_msg[r].data.filename
                   IN /\ WriteFile(r)
                      /\ mp_msg[r].data.client_id = c
                      /\ state[s] = "leader"
                      /\ f \in DOMAIN files[s]
                      /\ files'[s] = [files[s] EXCEPT
                                        ![f] = add_version(@, mp_msg[r].data.content)]]_vars

\* C25: a replica whose role is follower or candidate does not hold its own
\* id as leader_id.
C25_NoSelfForwarding ==
    \A r \in Servers : state[r] \in {"follower", "candidate"} => leader_id[r] # r

\* A request of the given type sent by client c that no replica has
\* finished handling: it waits in a mailbox or is in the hands of a message
\* processor
Pending(c, type) ==
    \E s \in Servers :
       \/ \E i \in 1..Len(Mailbox(message_queues, s)) :
             /\ message_queues[s][i].type = type
             /\ message_queues[s][i].data.client_id = c
       \/ /\ mp_pc[s] # "receive"
          /\ mp_msg[s].type = type
          /\ mp_msg[s].data.client_id = c

\* C26: the response a client call returns is the response generated for
\* the call's own request.  Requests of one client and one type that are
\* never forwarded (create_file, read_file, delete_file) are handled in the
\* order they were sent, so when such a call returns a response no request
\* of its type from this client is still unhandled.
C26_ClientResponseMatching ==
    [][\A c \in Clients :
          (/\ ReceiveResponse(c)
           /\ client_pc'[c] = "idle"
           /\ client_call[c] \in {"create_file", "read_file", "delete_file"})
          => ~Pending(c, client_call[c])]_vars


====
